---- MODULE Spec2Model ----
(***************************************************************************)
(* Model of the two batch pipelines of the repository.                     *)
(*   Spec     : the audio pipeline (src/audio_to_notion.py) over several   *)
(*              invocations: file-change tracker, oversized-file splitter, *)
(*              transcription loop, summarisation, page creation, state    *)
(*              update and save, with the user writing files in between.   *)
(*   SpecScan : _get_new_files on any folder and any saved mapping.        *)
(*   SpecFile : one iteration of the file loop, over every recording the   *)
(*              model distinguishes.                                       *)
(*   SpecLoop : the file loop of one invocation over several new files,    *)
(*              which may be interrupted.                                  *)
(*   SpecTranscribe : one call of _transcribe_audio, over every audio file *)
(*              the splitter distinguishes.                                *)
(*   SpecText : the text chunker split_text nested in _create_notion_page. *)
(***************************************************************************)
EXTENDS Integers, Sequences, FiniteSets, TLC

(* ------------------------------ bounds --------------------------------- *)
NumFiles == 2          \* *.mp3 paths that may exist in the watched folder
MaxWatched == 1        \* paths the folder may hold, across invocations
NumContents == 3       \* distinct byte contents a file may have
HashRange == 2         \* distinct digests (a digest is many-to-one)
MaxRuns == 2           \* invocations of main()
MaxWrites == 1         \* writes to the folder by the user while modelled
NumProfiles == 1536    \* audio files handed to _transcribe_audio on its own
NumRecordings == 10752 \* recordings handed to one iteration of the file loop
MaxTextLen == 5        \* length of the texts handed to split_text
MaxMaxLength == 3      \* largest max_length handed to split_text
MaxLines == 3          \* lines of a reply handed to parse_cards
MaxHarvests == 2       \* invocations of the harvester on the collection
NumPapers == 2         \* keys of the fetched items that are not notes
NumItems == 4          \* keys of the items a collection may hold

(* ------------------------- program constants --------------------------- *)
MaxBytes == 26214400           \* 25 * 1024 * 1024
ChunkLengthMs == 600000        \* 10 * 60 * 1000
SubChunkLengthMs == 300000     \* 5 * 60 * 1000
ScanWindow == 100              \* range(max_length, max(0, max_length - 100), -1)

Files == 1..NumFiles
Watched == 1..MaxWatched       \* the paths a folder watched over time may hold
Contents == 0..(NumContents - 1)
NoFile == -1                   \* the path does not exist in the folder
NoEntry == -1                  \* the path is not a key of the mapping
Orig == 0                      \* chunk path that is the original file_path
NL == "\n"
Whitespace == {" ", NL}

VARIABLES
  disk,             \* folder: path -> content, or NoFile
  stateFile,        \* persisted JSON mapping: path -> digest, or NoEntry
  processed_files,  \* self.processed_files
  pc,               \* position of the process in main()/process_new_files
  runs,             \* invocations started so far
  new_files,        \* new_files of process_new_files
  fileIdx,          \* index of file_path in new_files
  created_pages,    \* created_pages of process_new_files
  fileSize,         \* file_path.stat().st_size seen by the splitter
  audio,            \* audio: the content AudioSegment.from_file decoded
  start,            \* start of the current ten-minute slice
  chunks,           \* chunks list of _split_audio_if_needed
  curChunk,         \* the exported slice being split further (path, len)
  subStart,         \* sub_start of the current five-minute slice
  splitResult,      \* how _split_audio_if_needed returned
  splitTmps,        \* temporary files the splitter created for this file
  chunk_paths,      \* chunk_paths of _transcribe_audio
  chunkIdx,         \* idx of the transcription loop (1-based)
  transcript,       \* transcript of _transcribe_audio / process_new_files
  calls,            \* chunk paths posted to the transcription service
  texts,            \* texts the transcription service returned
  tmpFiles,         \* temporary files of the current call existing on disk
  transcribed,      \* files whose _transcribe_audio returned this run
  summaryCalls,     \* files given to the summarisation service this run
  pageCalls,        \* files given to the page-creation service this run
  outcome,          \* per file: what this run did with it
  lastRun,          \* per file: what the previous run did with it
  touched,          \* files written since the previous run began
  stable,           \* files existing and unwritten between the last two scans
  writes,           \* writes by the user so far
  raised,           \* the call whose exception process_new_files is handling
  recorded,         \* per path: the content whose digest stateFile holds
  hashed,           \* per path: the content whose digest processed_files holds
  heard,            \* per path: the content posted for transcription by the
                    \* processing under way or last completed
  text,             \* split_text: text (the remainder)
  max_length,       \* split_text: max_length
  tchunks,          \* split_text: chunks
  input,            \* split_text: the text it was called with
  tpc,              \* split_text: position
  title_reply,      \* what the title-generation request came back with
  notion_title,     \* notion_title of _create_notion_page
  hpc,              \* position of the harvester in run_pipeline / parse_cards
  items,            \* items_by_key: key -> fetched item, or NoItem
  notes,            \* notes: the keys of the fetched notes, in fetch order
  noteIdx,          \* index of n in notes
  k,                \* k of top_level_key
  spin,             \* parity of the iterations of while True in this call
  annos,            \* annos: the groups [pid, txts] in insertion order
  decks_exist,      \* decks_exist of run_pipeline
  ankiDecks,        \* the decks the flashcard application holds
  groupIdx,         \* index of (pid, txts) in annos.items()
  ankiCalls,        \* createDeck, generation and addNotes calls of this run
  generated,        \* what generate_cards returned for the current group
  cards,            \* cards of run_pipeline
  pushIdx,          \* index of (q, a) in cards
  txt,              \* parse_cards: txt.splitlines()
  lineIdx,          \* parse_cards: index of ln
  q,                \* parse_cards: q
  a,                \* parse_cards: a
  out               \* parse_cards: out

trackerVars == <<disk, stateFile, processed_files, runs, new_files, fileIdx,
                 created_pages>>
splitVars == <<fileSize, audio, start, chunks, curChunk, subStart,
               splitResult, splitTmps>>
transVars == <<chunk_paths, chunkIdx, transcript, calls, texts>>
logVars == <<transcribed, summaryCalls, pageCalls, outcome, lastRun, touched, stable, writes,
             raised, recorded, hashed, heard>>
textVars == <<text, max_length, tchunks, input, tpc>>
pageVars == <<title_reply, notion_title>>
groupVars == <<items, notes, noteIdx, k, spin, annos>>
deckVars == <<decks_exist, ankiDecks, groupIdx, ankiCalls, generated, cards,
              pushIdx>>
parseVars == <<txt, lineIdx, q, a, out>>
harvestVars == <<hpc, groupVars, deckVars, parseVars>>
vars == <<trackerVars, pc, splitVars, transVars, tmpFiles, logVars, textVars,
          pageVars, harvestVars>>

(* ------------------------------ helpers -------------------------------- *)
Min(x, y) == IF x < y THEN x ELSE y
Max(x, y) == IF x > y THEN x ELSE y

SeqsUpTo(S, n) == UNION {[1..m -> S] : m \in 0..n}

\* What the bytes of a file are as audio. A content is a number; its digits
\* give the file size, the decoded duration and the size of every re-encoded
\* slice, so that contents 0, 1, 2, ... are: a file at the limit; an oversized
\* file of ten minutes whose slice is split in two; a second file at the
\* limit; an oversized file of five minutes whose slice is split further; ...
Digit(c, div, base) == (c \div div) % base
StatSize(c) == IF Digit(c, 1, 2) = 0 THEN MaxBytes ELSE MaxBytes + 1
AudioLen(c) == CASE Digit(c, 2, 3) = 0 -> ChunkLengthMs
                 [] Digit(c, 2, 3) = 1 -> SubChunkLengthMs
                 [] OTHER -> ChunkLengthMs + 1
\* size of the export of audio[st : st + ChunkLengthMs]
SliceSize(c, st) ==
  IF Digit(c, 6 * (2 ^ (st \div ChunkLengthMs)), 2) = 0
  THEN MaxBytes + 1 ELSE MaxBytes
\* size of the export of chunk[sub : sub + SubChunkLengthMs] of that slice
SubSliceSize(c, st, sub) ==
  IF Digit(c, 24 * (2 ^ (2 * (st \div ChunkLengthMs)
                          + (sub \div SubChunkLengthMs))), 2) = 0
  THEN MaxBytes ELSE MaxBytes + 1
\* result.get("text", "") for the idx-th chunk posted: what is spoken in that
\* part of the audio, possibly nothing
ChunkText(c, idx) ==
  IF Digit(c, 192 * (2 ^ (idx - 1)), 2) = 0 THEN <<"a">> ELSE << >>

\* _get_file_hash: an MD5 digest of the bytes; fixed width, so many-to-one.
Hash(c) == c % HashRange

\* _get_mp3_files: the paths that exist, in the order glob yields them.
GetMp3Files(d) ==
  LET found == {f \in Files : d[f] # NoFile}
  IN  {s \in [1..Cardinality(found) -> found] :
         \A i, j \in 1..Cardinality(found) : i # j => s[i] # s[j]}

\* (variant) the loop with only the membership test of line 77
RECURSIVE GetNewFilesAbsentOnly(_, _, _)
GetNewFilesAbsentOnly(current_files, pf, d) ==
  IF current_files = << >> THEN << >>
  ELSE LET file_path == Head(current_files)
           rest == GetNewFilesAbsentOnly(Tail(current_files), pf, d)
       IN  IF pf[file_path] = NoEntry THEN <<file_path>> \o rest ELSE rest

\* _get_new_files: the loop over current_files.
RECURSIVE GetNewFiles(_, _, _)
GetNewFiles(current_files, pf, d) ==
  IF current_files = << >> THEN << >>
  ELSE LET file_path == Head(current_files)
           file_hash == Hash(d[file_path])
           rest == GetNewFiles(Tail(current_files), pf, d)
       IN  IF pf[file_path] = NoEntry \/ pf[file_path] # file_hash
           THEN <<file_path>> \o rest
           ELSE rest

\* tempfile.NamedTemporaryFile(delete=False): a name not in use.
FreshTmp == CHOOSE t \in 1..(Cardinality(tmpFiles) + 1) : t \notin tmpFiles

\* the temp_path != file_path entries of a chunk list
TempsOf(cs) == {cs[i].path : i \in 1..Len(cs)} \ {Orig}

\* str.lstrip / str.strip on a sequence of characters
RECURSIVE LStrip(_)
LStrip(s) == IF s # << >> /\ Head(s) \in Whitespace THEN LStrip(Tail(s)) ELSE s
RECURSIVE RStrip(_)
RStrip(s) == IF s # << >> /\ s[Len(s)] \in Whitespace
             THEN RStrip(SubSeq(s, 1, Len(s) - 1)) ELSE s
Strip(s) == RStrip(LStrip(s))

CurFile == new_files[fileIdx]

\* the paths that exist in the folder
Existing(d) == {f \in Files : d[f] # NoFile}

AllNone == [f \in Files |-> "none"]

\* no title request has been made for the current file
NoReply == [status |-> "none", readable |-> FALSE, content |-> << >>]

(* ------------------------------- Init ---------------------------------- *)
TextOff ==
  /\ text = << >> /\ max_length = 0 /\ tchunks = << >> /\ input = << >>
  /\ tpc = "off"

\* an item that was not fetched
NoItem ==
  [itemType |-> "none", parent |-> 0, anno |-> FALSE,
   creators |-> << >>, date |-> << >>]

GroupLocalsInit ==
  /\ notes = << >> /\ noteIdx = 1 /\ k = 0 /\ spin = 0 /\ annos = << >>

DeckLocalsInit ==
  /\ decks_exist = {} /\ groupIdx = 1 /\ ankiCalls = << >>
  /\ generated = << >> /\ cards = << >> /\ pushIdx = 1

ParseLocalsInit ==
  /\ txt = << >> /\ lineIdx = 1 /\ q = << >> /\ a = << >> /\ out = << >>

\* the harvester is not running
HarvestOff ==
  /\ hpc = "off"
  /\ items = [key \in 1..NumItems |-> NoItem]
  /\ ankiDecks = {}
  /\ GroupLocalsInit /\ DeckLocalsInit /\ ParseLocalsInit

FileLocalsInit ==
  /\ fileSize = 0 /\ audio = NoFile /\ start = 0 /\ chunks = << >>
  /\ curChunk = [path |-> Orig, len |-> 0] /\ subStart = 0
  /\ splitResult = "none" /\ splitTmps = {} /\ tmpFiles = {}
  /\ chunk_paths = << >> /\ chunkIdx = 1 /\ transcript = << >>
  /\ calls = << >> /\ texts = << >> /\ raised = "none"
  /\ title_reply = NoReply /\ notion_title = << >>

\* The state before the first invocation of main(): any folder content, and
\* no state file yet (_load_state then returns {}).
Init ==
  /\ disk \in {d \in [Files -> Contents \cup {NoFile}] :
                 Existing(d) \subseteq Watched}
  /\ recorded = [f \in Files |-> NoFile]
  /\ hashed = [f \in Files |-> NoFile]
  /\ heard = [f \in Files |-> NoFile]
  /\ stateFile = [f \in Files |-> NoEntry]
  /\ processed_files = [f \in Files |-> NoEntry]
  /\ pc = "idle" /\ runs = 0 /\ new_files = << >> /\ fileIdx = 1
  /\ created_pages = << >>
  /\ FileLocalsInit
  /\ transcribed = {} /\ summaryCalls = << >> /\ pageCalls = << >>
  /\ outcome = AllNone /\ lastRun = AllNone
  /\ touched = {} /\ stable = {} /\ writes = 0
  /\ TextOff
  /\ HarvestOff

(* ------------------------- process_new_files --------------------------- *)
\* the frame of _transcribe_audio (and of the splitter it called) is gone
LeaveTranscribe ==
  /\ fileSize' = 0 /\ audio' = NoFile /\ start' = 0 /\ chunks' = << >>
  /\ curChunk' = [path |-> Orig, len |-> 0] /\ subStart' = 0
  /\ splitResult' = "none" /\ splitTmps' = {} /\ tmpFiles' = {}
  /\ chunk_paths' = << >> /\ chunkIdx' = 1
  /\ calls' = << >> /\ texts' = << >>

ResetFileLocals ==
  /\ LeaveTranscribe
  /\ transcript' = << >> /\ raised' = "none"
  /\ title_reply' = NoReply /\ notion_title' = << >>

InSeq(x, s) == \E i \in 1..Len(s) : s[i] = x

Failed(o) == o \in {"failed_transcribe", "failed_summarize", "failed_page"}

\* main(): construct the processor (_load_state), then process_new_files up
\* to the start of the file loop (_get_new_files, the early return).
StartRun ==
  /\ pc = "idle" /\ runs < MaxRuns
  /\ runs' = runs + 1
  /\ processed_files' = stateFile
  /\ \E current_files \in GetMp3Files(disk) :
       new_files' = GetNewFiles(current_files, stateFile, disk)
  /\ fileIdx' = 1 /\ created_pages' = << >>
  /\ pc' = IF new_files' = << >> THEN "idle" ELSE "split"
  /\ transcribed' = {} /\ summaryCalls' = << >> /\ pageCalls' = << >>
  /\ lastRun' = [f \in Files |-> IF Failed(outcome[f]) THEN "failed"
                                  ELSE outcome[f]]
  /\ outcome' = [f \in Files |->
                   IF InSeq(f, new_files') THEN "pending" ELSE "skipped"]
  /\ stable' = Existing(disk) \ touched
  /\ touched' = {}
  /\ ResetFileLocals
  /\ hashed' = recorded
  /\ heard' = heard
  /\ UNCHANGED <<disk, stateFile, writes, recorded, textVars, harvestVars>>

\* the for statement: the next file_path, or the end of the loop
Advance ==
  /\ IF fileIdx < Len(new_files)
     THEN fileIdx' = fileIdx + 1 /\ pc' = "split"
     ELSE fileIdx' = fileIdx /\ pc' = "save"
  /\ ResetFileLocals

(* ----------------------- _split_audio_if_needed ------------------------ *)
\* the list [file_path]
Original(sz) == <<[path |-> Orig, size |-> sz]>>

\* (variant) the size test with >= in place of >
TooLargeInclusive(sz) == sz >= MaxBytes

\* line 88 (negated) and line 104: the size test against max_bytes
TooLarge(sz) == sz > MaxBytes

\* line 88: the file is at or under max_bytes
SplitNotNeeded ==
  /\ pc = "split"
  /\ ~TooLarge(StatSize(disk[CurFile]))
  /\ fileSize' = StatSize(disk[CurFile])
  /\ chunk_paths' = Original(fileSize')
  /\ splitResult' = "original"
  /\ pc' = "transcribe"
  /\ UNCHANGED <<trackerVars, audio, start, chunks, curChunk, subStart,
                 splitTmps, chunkIdx, transcript, calls, texts, tmpFiles,
                 logVars, textVars,
                 pageVars, harvestVars>>

\* line 94 raises (no decoder): the except branch returns [file_path]
SplitDecodeFails ==
  /\ pc = "split"
  /\ TooLarge(StatSize(disk[CurFile]))
  /\ fileSize' = StatSize(disk[CurFile])
  /\ chunk_paths' = Original(fileSize')
  /\ splitResult' = "fallback"
  /\ pc' = "transcribe"
  /\ UNCHANGED <<trackerVars, audio, start, chunks, curChunk, subStart,
                 splitTmps, chunkIdx, transcript, calls, texts, tmpFiles,
                 logVars, textVars,
                 pageVars, harvestVars>>

\* lines 94-96: the audio is decoded
SplitDecodeOk ==
  /\ pc = "split"
  /\ TooLarge(StatSize(disk[CurFile]))
  /\ fileSize' = StatSize(disk[CurFile])
  /\ audio' = disk[CurFile]
  /\ start' = 0 /\ chunks' = << >>
  /\ pc' = "slice"
  /\ UNCHANGED <<trackerVars, curChunk, subStart, splitResult, splitTmps,
                 transVars, tmpFiles, logVars, textVars,
                 pageVars, harvestVars>>

\* lines 98-114, one iteration of the outer loop up to the size test
SplitSlice ==
  /\ pc = "slice" /\ start < AudioLen(audio)
  /\ LET len == Min(ChunkLengthMs, AudioLen(audio) - start)
         tmp == FreshTmp
         sz == SliceSize(audio, start)
     IN  /\ tmpFiles' = tmpFiles \cup {tmp}
         /\ splitTmps' = splitTmps \cup {tmp}
         /\ IF TooLarge(sz)
            THEN /\ curChunk' = [path |-> tmp, len |-> len]
                 /\ subStart' = 0
                 /\ pc' = "subslice"
                 /\ UNCHANGED <<chunks, start>>
            ELSE /\ chunks' = Append(chunks, [path |-> tmp, size |-> sz])
                 /\ start' = start + ChunkLengthMs
                 /\ pc' = "slice"
                 /\ UNCHANGED <<curChunk, subStart>>
  /\ UNCHANGED <<trackerVars, fileSize, audio, splitResult, transVars,
                 logVars, textVars,
                 pageVars, harvestVars>>

\* lines 108-112, one iteration of the inner loop
SplitSubSlice ==
  /\ pc = "subslice" /\ subStart < curChunk.len
  /\ LET tmp == FreshTmp
         sz == SubSliceSize(audio, start, subStart)
     IN  /\ tmpFiles' = tmpFiles \cup {tmp}
         /\ splitTmps' = splitTmps \cup {tmp}
         /\ chunks' = Append(chunks, [path |-> tmp, size |-> sz])
  /\ subStart' = subStart + SubChunkLengthMs
  /\ UNCHANGED <<trackerVars, pc, fileSize, audio, start, curChunk,
                 splitResult, transVars, logVars, textVars,
                 pageVars, harvestVars>>

\* the inner loop is exhausted: the next iteration of the outer loop
SplitSubDone ==
  /\ pc = "subslice" /\ subStart >= curChunk.len
  /\ start' = start + ChunkLengthMs
  /\ pc' = "slice"
  /\ UNCHANGED <<trackerVars, fileSize, audio, chunks, curChunk, subStart,
                 splitResult, splitTmps, transVars, tmpFiles, logVars,
                 textVars,
                 pageVars, harvestVars>>

\* an export (lines 101, 111) raises after its temporary file was created:
\* the except branch returns [file_path]
SplitExportFails ==
  /\ \/ pc = "slice" /\ start < AudioLen(audio)
     \/ pc = "subslice" /\ subStart < curChunk.len
  /\ LET tmp == FreshTmp
     IN  /\ tmpFiles' = tmpFiles \cup {tmp}
         /\ splitTmps' = splitTmps \cup {tmp}
  /\ chunk_paths' = Original(fileSize)
  /\ splitResult' = "fallback"
  /\ pc' = "transcribe"
  /\ UNCHANGED <<trackerVars, fileSize, audio, start, chunks, curChunk,
                 subStart, chunkIdx, transcript, calls, texts, logVars,
                 textVars,
                 pageVars, harvestVars>>

\* lines 116-117: return chunks
SplitReturn ==
  /\ pc = "slice" /\ start >= AudioLen(audio)
  /\ chunk_paths' = chunks
  /\ splitResult' = "split"
  /\ pc' = "transcribe"
  /\ UNCHANGED <<trackerVars, fileSize, audio, start, chunks, curChunk,
                 subStart, splitTmps, chunkIdx, transcript, calls, texts,
                 tmpFiles, logVars, textVars,
                 pageVars, harvestVars>>

(* -------------------------- _transcribe_audio -------------------------- *)
\* (variant) the accumulation without the separating newline
AccumulateNoNewline(acc, chunk_transcript) == acc \o chunk_transcript

\* line 166: transcript += chunk_transcript + "\n"
Accumulate(acc, chunk_transcript) == acc \o chunk_transcript \o <<NL>>

\* lines 154-167: the service answers 200 for the chunk
TranscribeChunk ==
  /\ pc = "transcribe" /\ chunkIdx <= Len(chunk_paths)
  /\ calls' = Append(calls, chunk_paths[chunkIdx].path)
  /\ LET posted == IF chunk_paths[chunkIdx].path = Orig
                   THEN disk[CurFile] ELSE audio
         chunk_transcript == ChunkText(posted, chunkIdx)
     IN  /\ texts' = Append(texts, chunk_transcript)
         /\ transcript' = Accumulate(transcript, chunk_transcript)
         /\ heard' = [heard EXCEPT ![CurFile] = posted]
  /\ chunkIdx' = chunkIdx + 1
  /\ UNCHANGED <<trackerVars, pc, splitVars, chunk_paths, tmpFiles,
                 transcribed, summaryCalls, pageCalls, outcome, lastRun,
                 touched, stable, writes, raised, recorded, hashed, textVars,
                 pageVars, harvestVars>>

\* (variant) the failure of a chunk is swallowed and the loop goes on
TranscribeFailsContinues ==
  /\ pc = "transcribe" /\ chunkIdx <= Len(chunk_paths)
  /\ calls' = Append(calls, chunk_paths[chunkIdx].path)
  /\ texts' = Append(texts, << >>)
  /\ raised' = "transcribe"
  /\ chunkIdx' = chunkIdx + 1
  /\ UNCHANGED <<trackerVars, pc, splitVars, chunk_paths, transcript,
                 tmpFiles, transcribed, summaryCalls, pageCalls, outcome,
                 lastRun, touched, stable, writes, recorded, hashed, heard,
                 textVars,
                 pageVars, harvestVars>>

\* lines 168-181: the call fails; the temp files of chunk_paths are unlinked
\* and the exception reaches the except clause of process_new_files
TranscribeFails ==
  /\ pc = "transcribe" /\ chunkIdx <= Len(chunk_paths)
  /\ calls' = Append(calls, chunk_paths[chunkIdx].path)
  /\ tmpFiles' = tmpFiles \ TempsOf(chunk_paths)
  /\ raised' = "transcribe"
  /\ pc' = "except"
  /\ UNCHANGED <<trackerVars, splitVars, chunk_paths, chunkIdx, transcript,
                 texts, transcribed, summaryCalls, pageCalls, outcome,
                 lastRun, touched, stable, writes, recorded, hashed, heard, textVars,
                 pageVars, harvestVars>>

\* lines 183-191: the loop is over; clean up and return transcript.strip()
TranscribeReturn ==
  /\ pc = "transcribe" /\ chunkIdx > Len(chunk_paths)
  /\ tmpFiles' = tmpFiles \ TempsOf(chunk_paths)
  /\ transcript' = Strip(transcript)
  /\ transcribed' = transcribed \cup {CurFile}
  /\ pc' = "summarize"
  /\ UNCHANGED <<trackerVars, splitVars, chunk_paths, chunkIdx, calls, texts,
                 summaryCalls, pageCalls, outcome, lastRun, touched, stable,
                 writes, raised, recorded, hashed, heard, textVars,
                 pageVars, harvestVars>>

(* ------------------ _summarize_text, _create_notion_page ---------------- *)
\* lines 218-225: the summary is returned
Summarize ==
  /\ pc = "summarize"
  /\ summaryCalls' = Append(summaryCalls, CurFile)
  /\ pc' = "create_page"
  /\ LeaveTranscribe
  /\ UNCHANGED <<trackerVars, transcript, transcribed, pageCalls, outcome,
                 lastRun, touched, stable, writes, raised, recorded,
                 hashed, heard, textVars,
                 pageVars, harvestVars>>

\* lines 226-227
SummarizeFails ==
  /\ pc = "summarize"
  /\ summaryCalls' = Append(summaryCalls, CurFile)
  /\ raised' = "summarize"
  /\ pc' = "except"
  /\ LeaveTranscribe
  /\ UNCHANGED <<trackerVars, transcript, transcribed, pageCalls, outcome,
                 lastRun, touched, stable, writes, recorded, hashed, heard, textVars,
                 pageVars, harvestVars>>

\* file_path.name
FileName(f) == <<ToString(f)>>

\* What the title request of lines 275-291 can come back with: the request
\* raises; a reply whose status is not 200; a 200 reply whose body has no
\* choices[0].message.content string; a 200 reply carrying a text.
\* Which of them it is goes with the recording, like its transcription.
TitleReplies ==
  << [status |-> "ok", readable |-> TRUE, content |-> <<"T">>],
     [status |-> "raised", readable |-> FALSE, content |-> << >>],
     [status |-> "error", readable |-> FALSE, content |-> << >>],
     [status |-> "ok", readable |-> FALSE, content |-> << >>],
     [status |-> "ok", readable |-> TRUE, content |-> << >>],
     [status |-> "ok", readable |-> TRUE, content |-> <<"\"">>],
     [status |-> "ok", readable |-> TRUE, content |-> <<" ", "'", "T", "'">>] >>
TitleReply(c) == TitleReplies[1 + Digit(c, 1536, Len(TitleReplies))]

\* lines 293-295: strip, remove both quotation marks, strip
CleanTitle(t) ==
  Strip(SelectSeq(Strip(t), LAMBDA ch : ch \notin {"\"", "'"}))

\* (variant) no fallback for an empty generated title
NotionTitleNoFallback(reply, file_name) ==
  IF reply.status = "ok" /\ reply.readable
  THEN CleanTitle(reply.content) \o <<" - ">> \o file_name
  ELSE file_name

\* lines 274-304: notion_title
NotionTitle(reply, file_name) ==
  IF reply.status = "ok" /\ reply.readable
  THEN LET ai_title == CleanTitle(reply.content)
       IN  (IF ai_title = << >> THEN <<"Untitled">> ELSE ai_title)
             \o <<" - ">> \o file_name
  ELSE file_name

\* lines 274-306: the title request and what notion_title becomes
GenerateTitle ==
  LET reply == TitleReply(disk[CurFile])
  IN  /\ title_reply' = reply
      /\ notion_title' = NotionTitle(reply, FileName(CurFile))

\* lines 402-408 and 435-436: the page is created and its id appended
CreatePage ==
  /\ pc = "create_page"
  /\ GenerateTitle
  /\ pageCalls' = Append(pageCalls, CurFile)
  /\ created_pages' = Append(created_pages, CurFile)
  /\ pc' = "update"
  /\ UNCHANGED <<disk, stateFile, processed_files, runs, new_files, fileIdx,
                 splitVars, transVars, tmpFiles, transcribed, summaryCalls,
                 outcome, lastRun, touched, stable, writes, raised, recorded,
                 hashed, heard, textVars, harvestVars>>

\* lines 409-410
CreatePageFails ==
  /\ pc = "create_page"
  /\ GenerateTitle
  /\ pageCalls' = Append(pageCalls, CurFile)
  /\ raised' = "page"
  /\ pc' = "except"
  /\ UNCHANGED <<trackerVars, splitVars, transVars, tmpFiles, transcribed,
                 summaryCalls, outcome, lastRun, touched, stable, writes,
                 recorded, hashed, heard, textVars, harvestVars>>

\* line 439: the state update, then the next iteration
UpdateState ==
  /\ pc = "update"
  /\ processed_files' =
       [processed_files EXCEPT ![CurFile] = Hash(disk[CurFile])]
  /\ hashed' = [hashed EXCEPT ![CurFile] = disk[CurFile]]
  /\ outcome' = [outcome EXCEPT ![CurFile] = "ok"]
  /\ Advance
  /\ heard' = heard
  /\ UNCHANGED <<disk, stateFile, runs, new_files, created_pages,
                 transcribed, summaryCalls, pageCalls, lastRun, touched,
                 stable, writes, recorded, textVars, harvestVars>>

\* (variant) the except clause leaves the loop instead of continuing
HandleErrorBreaks ==
  /\ pc = "except"
  /\ outcome' = [outcome EXCEPT ![CurFile] =
                   CASE raised = "transcribe" -> "failed_transcribe"
                     [] raised = "summarize" -> "failed_summarize"
                     [] OTHER -> "failed_page"]
  /\ fileIdx' = fileIdx /\ pc' = "save"
  /\ ResetFileLocals
  /\ heard' = [heard EXCEPT ![CurFile] = NoFile]
  /\ UNCHANGED <<disk, stateFile, processed_files, runs, new_files,
                 created_pages, transcribed, summaryCalls, pageCalls,
                 lastRun, touched, stable, writes, recorded, hashed, textVars, harvestVars>>

\* (variant) the except clause also records the file as processed
HandleErrorMarks ==
  /\ pc = "except"
  /\ processed_files' =
       [processed_files EXCEPT ![CurFile] = Hash(disk[CurFile])]
  /\ hashed' = [hashed EXCEPT ![CurFile] = disk[CurFile]]
  /\ outcome' = [outcome EXCEPT ![CurFile] =
                   CASE raised = "transcribe" -> "failed_transcribe"
                     [] raised = "summarize" -> "failed_summarize"
                     [] OTHER -> "failed_page"]
  /\ Advance
  /\ heard' = heard
  /\ UNCHANGED <<disk, stateFile, runs, new_files, created_pages,
                 transcribed, summaryCalls, pageCalls, lastRun, touched,
                 stable, writes, recorded, textVars, harvestVars>>

\* lines 443-445: except ... continue
HandleError ==
  /\ pc = "except"
  /\ outcome' = [outcome EXCEPT ![CurFile] =
                   CASE raised = "transcribe" -> "failed_transcribe"
                     [] raised = "summarize" -> "failed_summarize"
                     [] OTHER -> "failed_page"]
  /\ Advance
  /\ heard' = [heard EXCEPT ![CurFile] = NoFile]
  /\ UNCHANGED <<disk, stateFile, processed_files, runs, new_files,
                 created_pages, transcribed, summaryCalls, pageCalls,
                 lastRun, touched, stable, writes, recorded, hashed, textVars, harvestVars>>

\* (variant) the run returns without writing the state file
SaveStateForgets ==
  /\ pc = "save"
  /\ pc' = "idle"
  /\ UNCHANGED <<trackerVars, splitVars, transVars, tmpFiles, logVars,
                 textVars,
                 pageVars, harvestVars>>

\* line 448: _save_state, then return
SaveState ==
  /\ pc = "save"
  /\ stateFile' = processed_files
  /\ recorded' = hashed
  /\ pc' = "idle"
  /\ UNCHANGED <<disk, processed_files, runs, new_files, fileIdx,
                 created_pages, splitVars, transVars, tmpFiles, transcribed,
                 summaryCalls, pageCalls, outcome, lastRun, touched, stable,
                 writes, raised, hashed, heard, textVars,
                 pageVars, harvestVars>>

\* the user saves a recording into the watched folder, over an existing
\* file or as a new one, at any time
WriteFile ==
  /\ writes < MaxWrites
  /\ \E f \in Watched, c \in Contents :
       /\ c # disk[f]
       /\ disk' = [disk EXCEPT ![f] = c]
       /\ touched' = touched \cup {f}
  /\ writes' = writes + 1
  /\ UNCHANGED <<stateFile, processed_files, runs, new_files, fileIdx,
                 created_pages, pc, splitVars, transVars, tmpFiles,
                 transcribed, summaryCalls, pageCalls, outcome, lastRun,
                 stable, raised, recorded, hashed, heard, textVars,
                 pageVars, harvestVars>>

Next ==
  \/ StartRun
  \/ SplitNotNeeded \/ SplitDecodeFails \/ SplitDecodeOk \/ SplitSlice
  \/ SplitSubSlice \/ SplitSubDone \/ SplitExportFails \/ SplitReturn
  \/ TranscribeChunk \/ TranscribeFails \/ TranscribeReturn
  \/ Summarize \/ SummarizeFails \/ CreatePage \/ CreatePageFails
  \/ UpdateState \/ HandleError \/ SaveState
  \/ WriteFile

Spec == Init /\ [][Next]_vars

(* ------------ _get_new_files on any folder and saved mapping ------------ *)
InitScan ==
  /\ disk \in [Files -> Contents \cup {NoFile}]
  /\ recorded \in [Files -> Contents \cup {NoFile}]
  /\ hashed = [f \in Files |-> NoFile]
  /\ heard = [f \in Files |-> NoFile]
  /\ stateFile = [f \in Files |->
                    IF recorded[f] = NoFile THEN NoEntry ELSE Hash(recorded[f])]
  /\ processed_files = [f \in Files |-> NoEntry]
  /\ pc = "idle" /\ runs = 0 /\ new_files = << >> /\ fileIdx = 1
  /\ created_pages = << >>
  /\ FileLocalsInit
  /\ transcribed = {} /\ summaryCalls = << >> /\ pageCalls = << >>
  /\ outcome = AllNone /\ lastRun = AllNone
  /\ touched = {} /\ stable = {} /\ writes = 0
  /\ TextOff
  /\ HarvestOff

NextScan == StartRun

SpecScan == InitScan /\ [][NextScan]_vars

(* ---------- the file loop of one invocation, with interruption ---------- *)
\* the positions of the process inside the for statement of lines 426-445
InLoop == pc \in {"split", "slice", "subslice", "transcribe", "summarize",
                  "create_page", "update", "except"}

\* KeyboardInterrupt or a kill while the loop runs: neither is an Exception,
\* so no except clause of process_new_files or main handles it and the
\* process ends without reaching line 448
Interrupt ==
  /\ InLoop
  /\ pc' = "interrupted"
  /\ UNCHANGED <<trackerVars, splitVars, transVars, tmpFiles, logVars,
                 textVars,
                 pageVars, harvestVars>>

\* the first invocation, after _get_new_files: no state file yet, so every
\* file of the folder is new
InitLoop ==
  /\ disk \in [Files -> Contents \cup {NoFile}]
  /\ new_files \in GetMp3Files(disk)
  /\ new_files # << >>
  /\ recorded = [f \in Files |-> NoFile]
  /\ hashed = [f \in Files |-> NoFile]
  /\ heard = [f \in Files |-> NoFile]
  /\ stateFile = [f \in Files |-> NoEntry]
  /\ processed_files = [f \in Files |-> NoEntry]
  /\ pc = "split" /\ runs = 1 /\ fileIdx = 1
  /\ created_pages = << >>
  /\ FileLocalsInit
  /\ transcribed = {} /\ summaryCalls = << >> /\ pageCalls = << >>
  /\ outcome = [f \in Files |->
                  IF InSeq(f, new_files) THEN "pending" ELSE "skipped"]
  /\ lastRun = AllNone
  /\ touched = {} /\ stable = {} /\ writes = 0
  /\ TextOff
  /\ HarvestOff

NextLoop ==
  \/ SplitNotNeeded \/ SplitDecodeFails \/ SplitDecodeOk \/ SplitSlice
  \/ SplitSubSlice \/ SplitSubDone \/ SplitExportFails \/ SplitReturn
  \/ TranscribeChunk \/ TranscribeFails \/ TranscribeReturn
  \/ Summarize \/ SummarizeFails \/ CreatePage \/ CreatePageFails
  \/ UpdateState \/ HandleError \/ SaveState
  \/ Interrupt

SpecLoop == InitLoop /\ [][NextLoop]_vars

(* ------------- one iteration of the file loop on any recording ---------- *)
InitFile ==
  /\ \E c \in 0..(NumRecordings - 1) :
       disk = [f \in Files |-> IF f = 1 THEN c ELSE NoFile]
  /\ recorded = [f \in Files |-> NoFile]
  /\ hashed = [f \in Files |-> NoFile]
  /\ heard = [f \in Files |-> NoFile]
  /\ stateFile = [f \in Files |-> NoEntry]
  /\ processed_files = [f \in Files |-> NoEntry]
  /\ pc = "split" /\ runs = 1 /\ new_files = <<1>> /\ fileIdx = 1
  /\ created_pages = << >>
  /\ FileLocalsInit
  /\ transcribed = {} /\ summaryCalls = << >> /\ pageCalls = << >>
  /\ outcome = [f \in Files |-> IF f = 1 THEN "pending" ELSE "skipped"]
  /\ lastRun = AllNone
  /\ touched = {} /\ stable = {} /\ writes = 0
  /\ TextOff
  /\ HarvestOff

NextFile ==
  \/ SplitNotNeeded \/ SplitDecodeFails \/ SplitDecodeOk \/ SplitSlice
  \/ SplitSubSlice \/ SplitSubDone \/ SplitExportFails \/ SplitReturn
  \/ TranscribeChunk \/ TranscribeFails \/ TranscribeReturn
  \/ Summarize \/ SummarizeFails \/ CreatePage \/ CreatePageFails
  \/ UpdateState \/ HandleError

SpecFile == InitFile /\ [][NextFile]_vars

(* ------------- one call of _transcribe_audio on any audio file ---------- *)
InitTranscribe ==
  /\ \E c \in 0..(NumProfiles - 1) :
       disk = [f \in Files |-> IF f = 1 THEN c ELSE NoFile]
  /\ recorded = [f \in Files |-> NoFile]
  /\ hashed = [f \in Files |-> NoFile]
  /\ heard = [f \in Files |-> NoFile]
  /\ stateFile = [f \in Files |-> NoEntry]
  /\ processed_files = [f \in Files |-> NoEntry]
  /\ pc = "split" /\ runs = 1 /\ new_files = <<1>> /\ fileIdx = 1
  /\ created_pages = << >>
  /\ FileLocalsInit
  /\ transcribed = {} /\ summaryCalls = << >> /\ pageCalls = << >>
  /\ outcome = [f \in Files |-> IF f = 1 THEN "pending" ELSE "skipped"]
  /\ lastRun = AllNone
  /\ touched = {} /\ stable = {} /\ writes = 0
  /\ TextOff
  /\ HarvestOff

NextTranscribe ==
  \/ SplitNotNeeded \/ SplitDecodeFails \/ SplitDecodeOk \/ SplitSlice
  \/ SplitSubSlice \/ SplitSubDone \/ SplitExportFails \/ SplitReturn
  \/ TranscribeChunk \/ TranscribeFails \/ TranscribeReturn

SpecTranscribe == InitTranscribe /\ [][NextTranscribe]_vars

(* ------------------------------ split_text ----------------------------- *)
Alphabet == {"a", ".", " ", NL}
SentenceEnd == {".", "!", "?"}

\* text[:n] and text[n:] of Python, on 1-based sequences
Take(t, n) == SubSeq(t, 1, Min(n, Len(t)))
Drop(t, n) == SubSeq(t, n + 1, Len(t))

\* lines 316-323: the backward scan for i in range(max_length, lo, -1);
\* i is the 0-based index, so the character looked at is t[i + 1]
RECURSIVE ScanBack(_, _, _, _)
ScanBack(t, i, lo, dflt) ==
  IF i <= lo THEN dflt
  ELSE IF t[i + 1] \in SentenceEnd THEN i + 1
  ELSE IF t[i + 1] = " " THEN i + 1
  ELSE ScanBack(t, i - 1, lo, dflt)

\* (variant) no boundary character found: nothing is cut off
SplitPointStuck(t, maxlen) ==
  ScanBack(t, maxlen, Max(0, maxlen - ScanWindow), 0)

SplitPoint(t, maxlen) ==
  ScanBack(t, maxlen, Max(0, maxlen - ScanWindow), maxlen)

\* (variant) the remainder starts one character too far
RemainderSkips(t, split_point) == LStrip(Drop(t, split_point + 1))

\* line 325: text = text[split_point:].lstrip()
Remainder(t, split_point) == LStrip(Drop(t, split_point))

PipelineOff ==
  /\ disk = [f \in Files |-> NoFile]
  /\ recorded = [f \in Files |-> NoFile]
  /\ hashed = [f \in Files |-> NoFile]
  /\ heard = [f \in Files |-> NoFile]
  /\ stateFile = [f \in Files |-> NoEntry]
  /\ processed_files = [f \in Files |-> NoEntry]
  /\ pc = "off" /\ runs = 0 /\ new_files = << >> /\ fileIdx = 1
  /\ created_pages = << >>
  /\ FileLocalsInit
  /\ transcribed = {} /\ summaryCalls = << >> /\ pageCalls = << >>
  /\ outcome = AllNone /\ lastRun = AllNone
  /\ touched = {} /\ stable = {} /\ writes = 0

\* split_text is called with a text and a maximum block length
InitText ==
  /\ input \in SeqsUpTo(Alphabet, MaxTextLen)
  /\ max_length \in 1..MaxMaxLength
  /\ text = input /\ tchunks = << >> /\ tpc = "start"
  /\ PipelineOff
  /\ HarvestOff

pipelineVarsAudio == <<trackerVars, pc, splitVars, transVars, tmpFiles,
                       logVars, pageVars>>
pipelineVars == <<pipelineVarsAudio, harvestVars>>

\* lines 309-311: the short-text return, or entry into the loop
SplitTextStart ==
  /\ tpc = "start"
  /\ IF Len(text) <= max_length
     THEN tchunks' = <<text>> /\ tpc' = "done"
     ELSE tchunks' = << >> /\ tpc' = "loop"
  /\ UNCHANGED <<text, max_length, input, pipelineVars>>

\* lines 313-315: the remainder fits; append it and break
SplitTextLast ==
  /\ tpc = "loop" /\ text # << >> /\ Len(text) <= max_length
  /\ tchunks' = Append(tchunks, text)
  /\ tpc' = "done"
  /\ UNCHANGED <<text, max_length, input, pipelineVars>>

\* lines 316-325: cut one block off the front
SplitTextCut ==
  /\ tpc = "loop" /\ Len(text) > max_length
  /\ LET split_point == SplitPoint(text, max_length)
     IN  /\ tchunks' = Append(tchunks, Take(text, split_point))
         /\ text' = Remainder(text, split_point)
  /\ UNCHANGED <<tpc, max_length, input, pipelineVars>>

\* line 312: the while condition fails; return chunks
SplitTextExit ==
  /\ tpc = "loop" /\ text = << >>
  /\ tpc' = "done"
  /\ UNCHANGED <<text, tchunks, max_length, input, pipelineVars>>

NextText == SplitTextStart \/ SplitTextLast \/ SplitTextCut \/ SplitTextExit

SpecText == InitText /\ [][NextText]_vars

\* the interpreter keeps executing split_text
SpecTextFair == SpecText /\ WF_vars(NextText)

(* ================= the harvester (src/zotero_to_anki.py) ================ *)
audioVars == <<pipelineVarsAudio, textVars>>

Keys == 1..NumItems
NoParent == 0                  \* the item has no parentItem entry

\* line 170: notes, in the order the items were fetched (by key)
RECURSIVE NotesFrom(_, _)
NotesFrom(itms, key) ==
  IF key > NumItems THEN << >>
  ELSE (IF itms[key].itemType = "note" THEN <<key>> ELSE << >>)
         \o NotesFrom(itms, key + 1)
NotesOf(itms) == NotesFrom(itms, 1)

\* line 186: the markdown of the note
NoteText(n) == ToString(n)

\* (variant) every key is taken for a top-level item
ParentOfNone(key) == NoParent

\* lines 178-179: items_by_key.get(k), then its parentItem or None
ParentOf(key) == IF items[key] = NoItem THEN NoParent ELSE items[key].parent

\* line 192: annos.setdefault(top_key, []).append(md)
Bucket(groups, top_key, md) ==
  IF \E i \in 1..Len(groups) : groups[i].pid = top_key
  THEN [i \in 1..Len(groups) |->
          IF groups[i].pid = top_key
          THEN [groups[i] EXCEPT !.txts = Append(@, md)]
          ELSE groups[i]]
  ELSE Append(groups, [pid |-> top_key, txts |-> <<md>>])

\* the note the loop of lines 185-193 is at
CurNote == notes[noteIdx]

\* lines 186-189: a note without the annotations heading is passed over
NoteSkip ==
  /\ hpc = "notes" /\ noteIdx <= Len(notes)
  /\ ~items[CurNote].anno
  /\ noteIdx' = noteIdx + 1
  /\ UNCHANGED <<hpc, items, notes, k, spin, annos, deckVars, parseVars,
                 audioVars>>

\* line 191: n["data"]["parentItem"] of a note that has no such entry
\* raises KeyError, which nothing in the script catches
NoteNoParent ==
  /\ hpc = "notes" /\ noteIdx <= Len(notes)
  /\ items[CurNote].anno /\ items[CurNote].parent = NoParent
  /\ hpc' = "raised"
  /\ UNCHANGED <<groupVars, deckVars, parseVars, audioVars>>

\* line 191: top_level_key is called with the parent of the note
NoteStart ==
  /\ hpc = "notes" /\ noteIdx <= Len(notes)
  /\ items[CurNote].anno /\ items[CurNote].parent # NoParent
  /\ k' = items[CurNote].parent /\ spin' = 0
  /\ hpc' = "climb"
  /\ UNCHANGED <<items, notes, noteIdx, annos, deckVars, parseVars,
                 audioVars>>

\* lines 178-182: one iteration of while True that climbs
ClimbUp ==
  /\ hpc = "climb" /\ ParentOf(k) # NoParent
  /\ k' = ParentOf(k) /\ spin' = 1 - spin
  /\ UNCHANGED <<hpc, items, notes, noteIdx, annos, deckVars, parseVars,
                 audioVars>>

\* lines 180-181 and 192: return k, and the note is bucketed under it
ClimbReturn ==
  /\ hpc = "climb" /\ ParentOf(k) = NoParent
  /\ annos' = Bucket(annos, k, NoteText(CurNote))
  /\ noteIdx' = noteIdx + 1
  /\ hpc' = "notes"
  /\ UNCHANGED <<items, notes, k, spin, deckVars, parseVars, audioVars>>

\* the loop of lines 185-193 is over
NotesDone ==
  /\ hpc = "notes" /\ noteIdx > Len(notes)
  /\ hpc' = "grouped"
  /\ UNCHANGED <<groupVars, deckVars, parseVars, audioVars>>

\* a note item: its parentItem entry and whether its text has the
\* annotations heading
Note(p, heading) ==
  [itemType |-> "note", parent |-> p, anno |-> heading,
   creators |-> << >>, date |-> << >>]

\* a collection was fetched: any items, with any parent references (the
\* parent of a note without the annotations heading is never looked at
\* unless the note is itself a parent, which the other items cover)
ClimbItems ==
  {NoItem}
  \cup {Note(p, TRUE) : p \in 0..NumItems}
  \cup {Note(NoParent, FALSE)}
  \cup {[itemType |-> "journalArticle", parent |-> p, anno |-> FALSE,
          creators |-> << >>, date |-> << >>] : p \in 0..NumItems}

InitClimb ==
  /\ items \in [Keys -> ClimbItems]
  /\ notes = NotesOf(items) /\ noteIdx = 1 /\ k = 0 /\ spin = 0
  /\ annos = << >>
  /\ hpc = "notes"
  /\ ankiDecks = {}
  /\ DeckLocalsInit /\ ParseLocalsInit
  /\ PipelineOff /\ TextOff

NextClimb ==
  \/ NoteSkip \/ NoteNoParent \/ NoteStart \/ ClimbUp \/ ClimbReturn
  \/ NotesDone

SpecClimb == InitClimb /\ [][NextClimb]_vars

\* the interpreter keeps running the script
SpecClimbFair == SpecClimb /\ WF_vars(NextClimb)

(* ----------------------------- parse_cards ----------------------------- *)
\* the lines a reply of the language model is made of
ReplyLines ==
  { <<"Q", ":", "x">>, <<" ", "Q", ":", " ", "y">>, <<"Q", ":">>,
    <<"A", ":", "z">>, <<"A", ":", " ", "w", " ">>, <<"A", ":", " ">>,
    <<"x">>, << >> }

\* str.startswith
StartsWith(ln, prefix) ==
  Len(ln) >= Len(prefix) /\ SubSeq(ln, 1, Len(prefix)) = prefix

\* (variant) a Q: line keeps the answer read before it
ParseLineKeepsAnswer(st, line) ==
  LET ln == Strip(line)
  IN  IF StartsWith(ln, <<"Q", ":">>)
      THEN [q |-> Strip(Drop(ln, 2)), a |-> st.a,
            out |-> IF st.q # << >> /\ st.a # << >>
                    THEN Append(st.out, <<st.q, st.a>>) ELSE st.out]
      ELSE IF StartsWith(ln, <<"A", ":">>)
      THEN [st EXCEPT !.a = Strip(Drop(ln, 2))]
      ELSE st

\* lines 140-145: the body of the for statement, on the locals (q, a, out)
ParseLine(st, line) ==
  LET ln == Strip(line)
  IN  IF StartsWith(ln, <<"Q", ":">>)
      THEN [q |-> Strip(Drop(ln, 2)), a |-> << >>,
            out |-> IF st.q # << >> /\ st.a # << >>
                    THEN Append(st.out, <<st.q, st.a>>) ELSE st.out]
      ELSE IF StartsWith(ln, <<"A", ":">>)
      THEN [st EXCEPT !.a = Strip(Drop(ln, 2))]
      ELSE st

\* lines 146-147: the pair pending when the lines are exhausted
ParseEnd(st) ==
  IF st.q # << >> /\ st.a # << >> THEN Append(st.out, <<st.q, st.a>>)
  ELSE st.out

\* parse_cards as a whole
RECURSIVE ParseFrom(_, _)
ParseFrom(st, lines) ==
  IF lines = << >> THEN ParseEnd(st)
  ELSE ParseFrom(ParseLine(st, Head(lines)), Tail(lines))
ParseCards(lines) == ParseFrom([q |-> << >>, a |-> << >>, out |-> << >>], lines)

\* one iteration of the for statement of line 139
ParseStep ==
  /\ hpc = "parse" /\ lineIdx <= Len(txt)
  /\ LET st == ParseLine([q |-> q, a |-> a, out |-> out], txt[lineIdx])
     IN  q' = st.q /\ a' = st.a /\ out' = st.out
  /\ lineIdx' = lineIdx + 1
  /\ UNCHANGED <<hpc, txt, groupVars, deckVars, audioVars>>

\* lines 146-147
ParseReturn ==
  /\ hpc = "parse" /\ lineIdx > Len(txt)
  /\ out' = ParseEnd([q |-> q, a |-> a, out |-> out])
  /\ hpc' = "parsed"
  /\ UNCHANGED <<txt, lineIdx, q, a, groupVars, deckVars, audioVars>>

\* parse_cards is called with a reply
InitParse ==
  /\ txt \in SeqsUpTo(ReplyLines, MaxLines)
  /\ lineIdx = 1 /\ q = << >> /\ a = << >> /\ out = << >>
  /\ hpc = "parse"
  /\ items = [key \in Keys |-> NoItem]
  /\ ankiDecks = {}
  /\ GroupLocalsInit /\ DeckLocalsInit
  /\ PipelineOff /\ TextOff

NextParse == ParseStep \/ ParseReturn

SpecParse == InitParse /\ [][NextParse]_vars

(* --------------------- run_pipeline, the deck loop -------------------- *)
PaperTypes == {"journalArticle", "conferencePaper", "report"}

\* lines 204-207 and 213: papers_by_id.get(pid)
PaperOf(pid) ==
  IF items[pid].itemType \in PaperTypes THEN items[pid] ELSE NoItem

\* lines 219-221: the deck name, as (author, year) under PARENT_DECK
Prefix(t, n) == SubSeq(t, 1, Min(n, Len(t)))
DeckName(paper) ==
  LET creator == paper.creators[1]
      author  == IF "lastName" \in DOMAIN creator THEN creator.lastName
                 ELSE "Unknown"
      year    == IF Prefix(paper.date, 4) = << >> THEN <<"n", ".", "d", ".">>
                 ELSE Prefix(paper.date, 4)
  IN  <<author, year>>

\* (variant) the deck is never found among the existing ones
DeckKnownNever(deck, known) == FALSE

\* line 224: deck in decks_exist
DeckKnown(deck, known) == deck \in known

\* (variant) only the first note is sent
NotesBlockFirst(txts) == <<txts[1]>>

\* line 233: "\n\n".join(txts)
RECURSIVE NotesBlock(_)
NotesBlock(txts) ==
  IF Len(txts) = 1 THEN <<txts[1]>>
  ELSE <<txts[1], NL, NL>> \o NotesBlock(Tail(txts))

\* the replies of the language model
GeneratedReplies ==
  { << >>,
    << <<"Q", ":", "x">>, <<"A", ":", "z">> >>,
    << <<"Q", ":", "x">>, <<"A", ":", "z">>, <<"x">>,
       <<" ", "Q", ":", " ", "y">>, <<"A", ":", " ", "w", " ">> >> }

\* the group the loop of lines 212-239 is at
CurGroup == annos[groupIdx]
CurPaper == PaperOf(CurGroup.pid)
InDeckLoop == hpc = "decks" /\ groupIdx <= Len(annos)

\* lines 90-92 and 210: the deck names are fetched
LoadDecks ==
  /\ hpc = "grouped"
  /\ decks_exist' = ankiDecks
  /\ ankiCalls' = Append(ankiCalls, [action |-> "deckNames",
                                      result |-> ankiDecks])
  /\ groupIdx' = 1
  /\ hpc' = "decks"
  /\ UNCHANGED <<ankiDecks, generated, cards, pushIdx, groupVars, parseVars,
                 audioVars>>

\* line 91: the request raises, which nothing in the script catches
LoadDecksFails ==
  /\ hpc = "grouped"
  /\ hpc' = "raised"
  /\ UNCHANGED <<groupVars, deckVars, parseVars, audioVars>>

\* lines 213-216: the top-level item is no paper of the collection
GroupOrphan ==
  /\ InDeckLoop /\ CurPaper = NoItem
  /\ groupIdx' = groupIdx + 1
  /\ UNCHANGED <<hpc, decks_exist, ankiDecks, ankiCalls, generated, cards,
                 pushIdx, groupVars, parseVars, audioVars>>

\* line 218: creators[0] of a paper without creators raises IndexError
GroupNoCreator ==
  /\ InDeckLoop /\ CurPaper # NoItem /\ CurPaper.creators = << >>
  /\ hpc' = "raised"
  /\ UNCHANGED <<groupVars, deckVars, parseVars, audioVars>>

\* lines 224-226: the deck exists, the paper is skipped
GroupDeckExists ==
  /\ InDeckLoop /\ CurPaper # NoItem /\ CurPaper.creators # << >>
  /\ DeckKnown(DeckName(CurPaper), decks_exist)
  /\ groupIdx' = groupIdx + 1
  /\ UNCHANGED <<hpc, decks_exist, ankiDecks, ankiCalls, generated, cards,
                 pushIdx, groupVars, parseVars, audioVars>>

\* lines 227-230 and 94-97: the deck is created
EnsureDeck ==
  /\ InDeckLoop /\ CurPaper # NoItem /\ CurPaper.creators # << >>
  /\ ~DeckKnown(DeckName(CurPaper), decks_exist)
  /\ ankiCalls' = Append(ankiCalls, [action |-> "createDeck",
                                      deck |-> DeckName(CurPaper)])
  /\ ankiDecks' = ankiDecks \cup {DeckName(CurPaper)}
  /\ decks_exist' = decks_exist \cup {DeckName(CurPaper)}
  /\ hpc' = "generate"
  /\ UNCHANGED <<groupIdx, generated, cards, pushIdx, groupVars, parseVars,
                 audioVars>>

\* line 95: the request raises
EnsureDeckFails ==
  /\ InDeckLoop /\ CurPaper # NoItem /\ CurPaper.creators # << >>
  /\ ~DeckKnown(DeckName(CurPaper), decks_exist)
  /\ hpc' = "raised"
  /\ UNCHANGED <<groupVars, deckVars, parseVars, audioVars>>

\* lines 233-235 and 109-135: the cards are generated and parsed
Generate ==
  /\ hpc = "generate"
  /\ \E reply \in GeneratedReplies :
       /\ generated' = reply
       /\ ankiCalls' = Append(ankiCalls,
                              [action |-> "generate",
                               text |-> NotesBlock(CurGroup.txts),
                               reply |-> reply])
       /\ cards' = ParseCards(reply)
  /\ pushIdx' = 1
  /\ hpc' = "push"
  /\ UNCHANGED <<decks_exist, ankiDecks, groupIdx, groupVars, parseVars,
                 audioVars>>

\* lines 134-135: the request raises, or the reply has no choices
GenerateFails ==
  /\ hpc = "generate"
  /\ hpc' = "raised"
  /\ UNCHANGED <<groupVars, deckVars, parseVars, audioVars>>

\* lines 238-239 and 99-107: one card is pushed
PushCard ==
  /\ hpc = "push" /\ pushIdx <= Len(cards)
  /\ ankiCalls' = Append(ankiCalls, [action |-> "addNotes",
                                      deck |-> DeckName(CurPaper),
                                      front |-> cards[pushIdx][1],
                                      back |-> cards[pushIdx][2]])
  /\ pushIdx' = pushIdx + 1
  /\ UNCHANGED <<hpc, decks_exist, ankiDecks, groupIdx, generated, cards,
                 groupVars, parseVars, audioVars>>

\* line 100: the request raises
PushCardFails ==
  /\ hpc = "push" /\ pushIdx <= Len(cards)
  /\ hpc' = "raised"
  /\ UNCHANGED <<groupVars, deckVars, parseVars, audioVars>>

\* the loop of lines 238-239 is over: the next group
PushDone ==
  /\ hpc = "push" /\ pushIdx > Len(cards)
  /\ groupIdx' = groupIdx + 1
  /\ hpc' = "decks"
  /\ UNCHANGED <<decks_exist, ankiDecks, ankiCalls, generated, cards, pushIdx,
                 groupVars, parseVars, audioVars>>

\* the loop of lines 212-239 is over: run_pipeline returns
DecksDone ==
  /\ hpc = "decks" /\ groupIdx > Len(annos)
  /\ hpc' = "done"
  /\ UNCHANGED <<groupVars, deckVars, parseVars, audioVars>>

\* the items of a collection: papers and other works at the first keys,
\* then notes under them or under earlier notes
Smith == [lastName |-> "Smith"]
Institute == [name |-> "Institute"]
In2020 == <<"2", "0", "2", "0">>
TopItems ==
  { NoItem,
    [itemType |-> "journalArticle", parent |-> NoParent, anno |-> FALSE,
     creators |-> <<Smith>>, date |-> In2020],
    [itemType |-> "conferencePaper", parent |-> NoParent, anno |-> FALSE,
     creators |-> <<Smith, Institute>>, date |-> In2020 \o <<"-", "0", "5">>],
    [itemType |-> "report", parent |-> NoParent, anno |-> FALSE,
     creators |-> <<Institute>>, date |-> << >>],
    [itemType |-> "journalArticle", parent |-> NoParent, anno |-> FALSE,
     creators |-> << >>, date |-> In2020],
    [itemType |-> "book", parent |-> NoParent, anno |-> FALSE,
     creators |-> <<Smith>>, date |-> In2020] }

NotesUnder(key) ==
  {Note(p, TRUE) : p \in 0..(key - 1)} \cup {Note(NoParent, FALSE)}

\* the decks the flashcard application may hold before the run
KnownDecks == {<<"Smith", In2020>>}

InitDecks ==
  /\ items \in {itms \in [Keys -> TopItems \cup UNION {NotesUnder(key) : key \in Keys}] :
                  \A key \in Keys :
                    IF key <= NumPapers THEN itms[key] \in TopItems
                    ELSE itms[key] \in NotesUnder(key)}
  /\ notes = NotesOf(items) /\ noteIdx = 1 /\ k = 0 /\ spin = 0
  /\ annos = << >>
  /\ hpc = "notes"
  /\ ankiDecks \in SUBSET KnownDecks
  /\ DeckLocalsInit /\ ParseLocalsInit
  /\ PipelineOff /\ TextOff

NextDecks ==
  \/ NextClimb
  \/ LoadDecks \/ LoadDecksFails
  \/ GroupOrphan \/ GroupNoCreator \/ GroupDeckExists
  \/ EnsureDeck \/ EnsureDeckFails
  \/ Generate \/ GenerateFails
  \/ PushCard \/ PushCardFails \/ PushDone
  \/ DecksDone

SpecDecks == InitDecks /\ [][NextDecks]_vars

(* ------------------ the harvester is run again (manually) --------------- *)
\* the runs that got as far as fetching the deck names
RECURSIVE DeckFetches(_)
DeckFetches(log) ==
  IF log = << >> THEN 0
  ELSE (IF Head(log).action = "deckNames" THEN 1 ELSE 0)
         + DeckFetches(Tail(log))

\* lines 241-242 of a new process: run_pipeline starts over with fresh
\* locals on the same collection; the decks of the flashcard application
\* are what the earlier runs left
RunAgain ==
  /\ hpc \in {"done", "raised"}
  /\ DeckFetches(ankiCalls) < MaxHarvests
  /\ notes' = NotesOf(items) /\ noteIdx' = 1 /\ k' = 0 /\ spin' = 0
  /\ annos' = << >>
  /\ decks_exist' = {} /\ groupIdx' = 1
  /\ generated' = << >> /\ cards' = << >> /\ pushIdx' = 1
  /\ hpc' = "notes"
  /\ UNCHANGED <<items, ankiDecks, ankiCalls, parseVars, audioVars>>

NextHarvests == NextDecks \/ RunAgain

SpecHarvests == InitDecks /\ [][NextHarvests]_vars

(* ======================================================================= *)
(*                                 Claims                                  *)
(* ======================================================================= *)
SetOf(sq) == {sq[i] : i \in 1..Len(sq)}
NoDup(sq) == \A i, j \in 1..Len(sq) : i # j => sq[i] # sq[j]
PathsOf(cs) == [i \in 1..Len(cs) |-> cs[i].path]

RECURSIVE Concat(_)
Concat(ss) == IF ss = << >> THEN << >> ELSE Head(ss) \o Concat(Tail(ss))

\* "\n".join(ss)
RECURSIVE JoinNL(_)
JoinNL(ss) == IF ss = << >> THEN << >>
              ELSE IF Len(ss) = 1 THEN ss[1]
              ELSE ss[1] \o <<NL>> \o JoinNL(Tail(ss))

NonWs(t) == SelectSeq(t, LAMBDA ch : ch \notin Whitespace)

\* bs are consecutive pieces of t, with nothing but the whitespace an lstrip
\* removes between a piece and the next
RECURSIVE Reassembles(_, _)
Reassembles(bs, t) ==
  IF bs = << >> THEN t = << >>
  ELSE /\ Len(bs[1]) <= Len(t)
       /\ SubSeq(t, 1, Len(bs[1])) = bs[1]
       /\ Reassembles(Tail(bs), LStrip(SubSeq(t, Len(bs[1]) + 1, Len(t))))

\* _get_new_files has run, and neither the folder nor the mapping it read
\* has changed since
JustScanned ==
  /\ runs >= 1 /\ touched = {}
  /\ \/ pc = "idle" /\ new_files = << >>
     \/ pc \notin {"idle", "save", "off"} /\ fileIdx = 1

\* _transcribe_audio has finished for the current file
TranscribeFinished ==
  pc = "summarize" \/ (pc = "except" /\ raised = "transcribe")

(* C1: the tracker entry of a file is written only after its transcription, *)
(* summarisation and page creation all succeeded in the run; a file whose   *)
(* processing failed keeps its entry as it was when the run began, and, if  *)
(* its content is not written in between, the next run reports it again.    *)
C1_EntryOnlyAfterSuccess ==
  /\ \A f \in Files :
       processed_files[f] # stateFile[f] =>
         /\ outcome[f] = "ok"
         /\ f \in transcribed
         /\ InSeq(f, summaryCalls)
         /\ InSeq(f, pageCalls)
         /\ InSeq(f, created_pages)
  /\ \A f \in Files :
       (Failed(outcome[f]) \/ (pc = "except" /\ f = CurFile)) =>
         processed_files[f] = stateFile[f]
  /\ runs >= 2 =>
       \A f \in stable : lastRun[f] = "failed" => InSeq(f, new_files)

C1_Witness ==
  /\ runs >= 2
  /\ \E f \in stable :
       /\ lastRun[f] = "failed" /\ InSeq(f, new_files)
       /\ outcome[f] = "ok" /\ processed_files[f] # stateFile[f]

(* C2 (as stated): _get_new_files returns exactly the files whose digest is *)
(* absent from the mapping or differs from the stored one, and every file   *)
(* whose bytes differ from the bytes the mapping recorded is reported.      *)
C2_BytesDifferReported ==
  JustScanned =>
    /\ NoDup(new_files)
    /\ SetOf(new_files) =
         {f \in Files : /\ disk[f] # NoFile
                        /\ \/ stateFile[f] = NoEntry
                           \/ stateFile[f] # Hash(disk[f])}
    /\ \A f \in Files :
         (disk[f] # NoFile /\ recorded[f] # NoFile /\ disk[f] # recorded[f])
           => InSeq(f, new_files)

(* C2 (amended): _get_new_files returns exactly the existing files whose    *)
(* digest is absent from the mapping or differs from the stored digest,     *)
(* each once; a file whose digest differs from the stored one is reported.  *)
C2_NewFilesExact ==
  JustScanned =>
    /\ NoDup(new_files)
    /\ SetOf(new_files) =
         {f \in Files : /\ disk[f] # NoFile
                        /\ \/ stateFile[f] = NoEntry
                           \/ stateFile[f] # Hash(disk[f])}

C2_Witness ==
  /\ JustScanned /\ pc = "split"
  /\ \E f, g \in Files :
       /\ stateFile[f] # NoEntry /\ stateFile[f] # Hash(disk[f])
       /\ InSeq(f, new_files)
       /\ disk[g] # NoFile /\ ~InSeq(g, new_files)

(* C3 (as stated): a file whose content is unchanged between two            *)
(* consecutive runs is not reported as new by the second run, whatever the  *)
(* first run did with it.                                                   *)
C3_UnchangedNeverReported ==
  runs >= 2 => \A f \in stable : ~InSeq(f, new_files)

(* C3 (amended): a file whose content is unchanged between two consecutive  *)
(* runs is not reported as new by the second run, unless its processing     *)
(* failed in the first run.                                                 *)
C3_UnchangedNotReportedUnlessFailed ==
  runs >= 2 =>
    \A f \in stable : lastRun[f] \in {"ok", "skipped"} => ~InSeq(f, new_files)

C3_Witness ==
  /\ runs >= 2
  /\ \E f \in stable : lastRun[f] = "ok" /\ ~InSeq(f, new_files)

(* C4: every block split_text returns (and every block it has appended so   *)
(* far) is at most max_length characters long.                              *)
C4_BlocksWithinLimit ==
  \A i \in 1..Len(tchunks) : Len(tchunks[i]) <= max_length

(* C5: the blocks split_text returns are consecutive pieces of its input,   *)
(* in order; only whitespace removed by the lstrip after a cut is missing,  *)
(* so the non-whitespace characters are the same, in the same order.        *)
C5_BlocksReassemble ==
  tpc = "done" =>
    /\ Reassembles(tchunks, input)
    /\ NonWs(Concat(tchunks)) = NonWs(input)

C5_Witness ==
  /\ tpc = "done" /\ Len(tchunks) >= 2
  /\ Len(Concat(tchunks)) < Len(input)
  /\ NonWs(input) # << >>

(* C6 (as stated): the splitter returns [file_path] for a file at or under  *)
(* max_bytes, and at least two chunks for every larger file it decoded and  *)
(* re-encoded without error.                                                *)
C6_OversizedGivesTwoChunks ==
  splitResult # "none" =>
    /\ fileSize <= MaxBytes => chunk_paths = Original(fileSize)
    /\ splitResult = "split" => Len(chunk_paths) >= 2

(* C6 (amended): the splitter returns [file_path] for a file at or under    *)
(* max_bytes, and at least two chunks for every larger file it decoded and  *)
(* re-encoded without error whose duration exceeds ten minutes.             *)
C6_LongOversizedGivesTwoChunks ==
  splitResult # "none" =>
    /\ fileSize <= MaxBytes => chunk_paths = Original(fileSize)
    /\ (splitResult = "split" /\ AudioLen(audio) > ChunkLengthMs)
         => Len(chunk_paths) >= 2

C6_Witness ==
  /\ splitResult = "split" /\ fileSize > MaxBytes
  /\ AudioLen(audio) > ChunkLengthMs
  /\ Len(chunk_paths) >= 2

(* C7: every chunk the splitter returns after decoding and re-encoding      *)
(* without error is at or under max_bytes.                                  *)
C7_ChunksWithinLimit ==
  splitResult = "split" =>
    \A i \in 1..Len(chunk_paths) : chunk_paths[i].size <= MaxBytes

(* C8: when _transcribe_audio has finished for a file, by return or by      *)
(* exception, no temporary file the splitter created for it exists.         *)
C8_NoTempFileLeft ==
  TranscribeFinished => splitTmps \cap tmpFiles = {}

(* C9 (as stated): the transcription service is called once per chunk, in   *)
(* the splitter's order, and the transcript returned is the texts joined    *)
(* with a newline between consecutive texts.                                *)
C9_JoinedWithNewlines ==
  /\ pc \in {"transcribe", "summarize"} =>
       /\ calls = SubSeq(PathsOf(chunk_paths), 1, chunkIdx - 1)
       /\ Len(texts) = chunkIdx - 1
  /\ pc = "summarize" =>
       /\ calls = PathsOf(chunk_paths)
       /\ transcript = JoinNL(texts)

(* C9 (amended): the transcription service is called once per chunk, in the *)
(* splitter's order, and the transcript returned is the texts joined with a *)
(* newline between consecutive texts, stripped of leading and trailing      *)
(* whitespace.                                                              *)
C9_JoinedThenStripped ==
  /\ pc \in {"transcribe", "summarize"} =>
       /\ calls = SubSeq(PathsOf(chunk_paths), 1, chunkIdx - 1)
       /\ Len(texts) = chunkIdx - 1
  /\ pc = "summarize" =>
       /\ calls = PathsOf(chunk_paths)
       /\ NoDup(calls)
       /\ transcript = Strip(JoinNL(texts))

C9_Witness ==
  /\ pc = "summarize" /\ Len(chunk_paths) >= 2
  /\ \A i \in 1..Len(texts) : texts[i] # << >>
  /\ transcript = JoinNL(texts)

(* C10: when the transcription call fails for a chunk, the failing call is   *)
(* the last one made for the file, the exception reaches the except clause  *)
(* of process_new_files, and the file gets no summarisation call, no page   *)
(* creation call, no page and no tracker entry in this run.                 *)
C10_FailureStopsFile ==
  /\ raised = "transcribe" =>
       /\ pc = "except"
       /\ calls = SubSeq(PathsOf(chunk_paths), 1, chunkIdx)
       /\ Len(texts) = chunkIdx - 1
       /\ CurFile \notin transcribed
       /\ ~InSeq(CurFile, summaryCalls)
       /\ ~InSeq(CurFile, pageCalls)
       /\ ~InSeq(CurFile, created_pages)
  /\ \A f \in Files :
       outcome[f] = "failed_transcribe" =>
         /\ f \notin transcribed
         /\ ~InSeq(f, summaryCalls)
         /\ ~InSeq(f, pageCalls)
         /\ ~InSeq(f, created_pages)
         /\ processed_files[f] = stateFile[f]

C10_Witness ==
  /\ pc = "except" /\ raised = "transcribe"
  /\ chunkIdx < Len(chunk_paths)
  /\ outcome[CurFile] = "pending"

(* C11: a failure of transcription, summarisation or page creation for one  *)
(* file never stops the run: the files of new_files are attempted in list    *)
(* order, every one of them has been attempted when the loop is left, and    *)
(* the state saved at the end holds the entries of the files that succeeded  *)
(* and of no file that failed.                                               *)
C11_FailureNeverStopsRun ==
  /\ \A i \in 1..Len(new_files) :
       /\ i < fileIdx => outcome[new_files[i]] # "pending"
       /\ i > fileIdx => /\ outcome[new_files[i]] = "pending"
                         /\ new_files[i] \notin transcribed
                         /\ ~InSeq(new_files[i], summaryCalls)
  /\ pc \in {"save", "idle"} =>
       \A i \in 1..Len(new_files) : outcome[new_files[i]] # "pending"
  /\ pc = "idle" =>
       \A f \in Files :
         stateFile[f] = IF outcome[f] = "ok" THEN Hash(disk[f]) ELSE NoEntry

C11_Witness ==
  /\ pc = "idle"
  /\ \E i, j \in 1..Len(new_files) :
       /\ i < j
       /\ Failed(outcome[new_files[i]])
       /\ outcome[new_files[j]] = "ok"
       /\ stateFile[new_files[j]] = Hash(disk[new_files[j]])

(* C12: if the run is interrupted in the middle of the file loop, the        *)
(* persisted state file holds exactly the entries as of the last file that   *)
(* completed before the interruption: every file already published in this  *)
(* run is recorded in it.                                                    *)
C12_InterruptKeepsCompleted ==
  pc = "interrupted" =>
    /\ stateFile = processed_files
    /\ \A f \in Files :
         InSeq(f, created_pages) => stateFile[f] = Hash(disk[f])

\* the page-creation call of the current file has been made
PagePosted == pc = "update" \/ (pc = "except" /\ raised = "page")

\* what lines 293-299 make of the text a readable 200 reply carries
TitleFrom(reply, file_name) ==
  (IF CleanTitle(reply.content) = << >> THEN <<"Untitled">>
   ELSE CleanTitle(reply.content)) \o <<" - ">> \o file_name

(* C13 (as stated): a failed title generation (request exception or non-200  *)
(* reply) never aborts the file, the page-creation call is made with the raw *)
(* file name as title; on every 200 reply the title is                       *)
(* '<generated title> - <file name>', with 'Untitled' for an empty one.      *)
C13_TitleOnEvery200 ==
  /\ title_reply # NoReply => PagePosted /\ InSeq(CurFile, pageCalls)
  /\ PagePosted =>
       /\ title_reply.status \in {"raised", "error"} =>
            notion_title = FileName(CurFile)
       /\ title_reply.status = "ok" =>
            notion_title = TitleFrom(title_reply, FileName(CurFile))

(* C13 (amended): a failed title generation (request exception, non-200      *)
(* reply, or a 200 reply whose body cannot be read) never aborts the file,   *)
(* the page-creation call is made with the raw file name as title; on a 200  *)
(* reply carrying a text the title is '<text without quotation marks and     *)
(* surrounding whitespace> - <file name>', with 'Untitled' for an empty one. *)
C13_TitleFallsBackToFileName ==
  /\ title_reply # NoReply => PagePosted /\ InSeq(CurFile, pageCalls)
  /\ PagePosted =>
       /\ title_reply # NoReply
       /\ ~(title_reply.status = "ok" /\ title_reply.readable) =>
            notion_title = FileName(CurFile)
       /\ title_reply.status = "ok" /\ title_reply.readable =>
            notion_title = TitleFrom(title_reply, FileName(CurFile))

C13_Witness ==
  /\ pc = "update" /\ InSeq(CurFile, created_pages)
  /\ title_reply.status = "raised"
  /\ notion_title = FileName(CurFile)

(* C20: the hash process_new_files records for a successfully processed     *)
(* file is the hash of the content that was transcribed in that run; so a    *)
(* file modified while it is being processed (after its transcription and    *)
(* before the state update) is still reported as new by the next run.        *)
C20_RecordedHashIsTranscribed ==
  /\ \A f \in Files :
       outcome[f] = "ok" => processed_files[f] = Hash(heard[f])
  /\ (runs >= 2 /\ JustScanned) =>
       \A f \in Existing(disk) :
         (lastRun[f] = "ok" /\ Hash(disk[f]) # Hash(heard[f]))
           => InSeq(f, new_files)

\* the key at the end of the parentItem references that start at key, or 0
\* when they do not end within hops references
RECURSIVE ChainTop(_, _)
ChainTop(key, hops) ==
  IF items[key] = NoItem \/ items[key].parent = NoParent THEN key
  ELSE IF hops = 0 THEN 0
  ELSE ChainTop(items[key].parent, hops - 1)

TopOf(n) == ChainTop(items[n].parent, NumItems)

\* the texts of the annotation notes whose references end at top, in fetch
\* order
RECURSIVE TextsUnder(_, _)
TextsUnder(top, ns) ==
  IF ns = << >> THEN << >>
  ELSE (IF items[Head(ns)].anno /\ TopOf(Head(ns)) = top
        THEN <<NoteText(Head(ns))>> ELSE << >>) \o TextsUnder(top, Tail(ns))

(* C14: every annotation note is bucketed under the key reached by          *)
(* following parentItem references from the note's parent through the        *)
(* fetched items until an item with no parent reference is reached, and the  *)
(* texts of all notes resolving to the same key form one group, in fetch     *)
(* order.                                                                    *)
C14_GroupedUnderTopLevel ==
  hpc = "grouped" =>
    /\ \A i, j \in 1..Len(annos) : i # j => annos[i].pid # annos[j].pid
    /\ \A i \in 1..Len(notes) :
         items[notes[i]].anno =>
           \E g \in 1..Len(annos) : annos[g].pid = TopOf(notes[i])
    /\ \A g \in 1..Len(annos) :
         /\ annos[g].txts # << >>
         /\ annos[g].txts = TextsUnder(annos[g].pid, notes)

C14_Witness ==
  /\ hpc = "grouped"
  /\ \E g \in 1..Len(annos), n \in Keys :
       /\ items[n].anno /\ TopOf(n) = annos[g].pid
       /\ items[annos[g].pid] # NoItem
       /\ LET first == items[n].parent
         IN  /\ ParentOf(first) # NoParent
             /\ ParentOf(ParentOf(first)) = annos[g].pid
             /\ ParentOf(first) # annos[g].pid

(* C15: orphan or malformed annotation notes never raise an error in        *)
(* run_pipeline: a note whose parent, at any level of the chain, is missing  *)
(* from the fetched items, and a note that carries no parentItem reference,  *)
(* is skipped without any exception and is not put under any fetched item,   *)
(* and the remaining notes are still processed.                              *)
C15_OrphanNotesNeverRaise ==
  /\ hpc # "raised"
  /\ hpc = "grouped" =>
       /\ noteIdx = Len(notes) + 1
       /\ \A g \in 1..Len(annos), i \in 1..Len(notes) :
            (/\ items[annos[g].pid] # NoItem
             /\ \E t \in 1..Len(annos[g].txts) :
                  annos[g].txts[t] = NoteText(notes[i]))
              => /\ items[notes[i]].parent # NoParent
                 /\ items[TopOf(notes[i])] # NoItem

(* C16: the parent-chain traversal top_level_key terminates for every       *)
(* fetched item set and every starting key, including item sets whose        *)
(* parentItem references contain a cycle: a call that has started returns.   *)
C16_TraversalTerminates == (hpc = "climb") ~> (hpc = "notes")

\* the lines of txt as parse_cards classifies them
IsQ(i) == StartsWith(Strip(txt[i]), <<"Q", ":">>)
IsA(i) == ~IsQ(i) /\ StartsWith(Strip(txt[i]), <<"A", ":">>)
MarkedText(i) == Strip(Drop(Strip(txt[i]), 2))
\* the A: lines between the Q: line i and the next Q: line
AnswersOf(i) ==
  {j \in (i + 1)..Len(txt) :
     IsA(j) /\ \A m \in (i + 1)..j : ~IsQ(m)}
LastAnswer(i) == CHOOSE j \in AnswersOf(i) : \A m \in AnswersOf(i) : m <= j

Answered(i) ==
  /\ IsQ(i) /\ MarkedText(i) # << >>
  /\ \E j \in AnswersOf(i) : MarkedText(j) # << >>

AnsweredLast(i) ==
  /\ IsQ(i) /\ MarkedText(i) # << >>
  /\ AnswersOf(i) # {} /\ MarkedText(LastAnswer(i)) # << >>

\* the questions of the lines from i on that have an answer
RECURSIVE QuestionsFrom(_)
QuestionsFrom(i) ==
  IF i > Len(txt) THEN << >>
  ELSE (IF Answered(i) THEN <<MarkedText(i)>> ELSE << >>)
         \o QuestionsFrom(i + 1)

\* the pairs of the lines from i on whose last answer has a text
RECURSIVE PairsFrom(_)
PairsFrom(i) ==
  IF i > Len(txt) THEN << >>
  ELSE (IF AnsweredLast(i)
        THEN <<<<MarkedText(i), MarkedText(LastAnswer(i))>>>> ELSE << >>)
         \o PairsFrom(i + 1)

KeyedPaper(g) ==
  PaperOf(annos[g].pid) # NoItem /\ PaperOf(annos[g].pid).creators # << >>
DeckOfGroup(g) == DeckName(PaperOf(annos[g].pid))

(* C17: for every group whose derived deck name is already in the           *)
(* existing-decks set when the group is reached, run_pipeline makes no       *)
(* createDeck call, no generation call and no card-push call for that group  *)
(* in this run, whatever its notes: the step taken from there leaves the     *)
(* calls and the decks as they are and moves to the next group.              *)
C17_ExistingDeckNoCalls ==
  [][ (InDeckLoop /\ KeyedPaper(groupIdx)
         /\ DeckOfGroup(groupIdx) \in decks_exist)
      => (/\ ankiCalls' = ankiCalls /\ ankiDecks' = ankiDecks
          /\ groupIdx' = groupIdx + 1 /\ hpc' = "decks") ]_vars

C17_Witness ==
  /\ hpc = "decks" /\ groupIdx > 1 /\ Len(ankiCalls) = 1
  /\ KeyedPaper(groupIdx - 1)
  /\ DeckOfGroup(groupIdx - 1) \in ankiCalls[1].result
  /\ Len(annos[groupIdx - 1].txts) = 2

\* the calls of the run after the deck names were fetched
CallIdx == 2..Len(ankiCalls)
IsCall(i, act) == i \in CallIdx /\ ankiCalls[i].action = act

\* the first group of its key, the deck of which did not exist
FirstOfKey(g) ==
  /\ KeyedPaper(g)
  /\ DeckOfGroup(g) \notin ankiCalls[1].result
  /\ \A h \in 1..(g - 1) : KeyedPaper(h) => DeckOfGroup(h) # DeckOfGroup(g)

\* the notes of a group joined by blank lines
RECURSIVE JoinedNotes(_)
JoinedNotes(txts) ==
  IF Len(txts) <= 1 THEN txts
  ELSE JoinedNotes(SubSeq(txts, 1, Len(txts) - 1))
         \o <<NL, NL, txts[Len(txts)]>>

\* the calls from i on are: createDeck for group g, one generation call
\* with all its notes, one push per pair parsed from the reply
CallsOfGroupAt(g, i) ==
  /\ IsCall(i, "createDeck") /\ ankiCalls[i].deck = DeckOfGroup(g)
  /\ IsCall(i + 1, "generate")
  /\ ankiCalls[i + 1].text = JoinedNotes(annos[g].txts)
  /\ LET pairs == ParseCards(ankiCalls[i + 1].reply)
     IN  /\ \A n \in 1..Len(pairs) :
              /\ IsCall(i + 1 + n, "addNotes")
              /\ ankiCalls[i + 1 + n].deck = DeckOfGroup(g)
              /\ ankiCalls[i + 1 + n].front = pairs[n][1]
              /\ ankiCalls[i + 1 + n].back = pairs[n][2]
         /\ ~IsCall(i + 2 + Len(pairs), "addNotes")

\* the same, as far as the calls go
CallsOfGroupBegunAt(g, i) ==
  /\ IsCall(i, "createDeck") /\ ankiCalls[i].deck = DeckOfGroup(g)
  /\ i + 1 \in CallIdx =>
       /\ IsCall(i + 1, "generate")
       /\ ankiCalls[i + 1].text = JoinedNotes(annos[g].txts)
       /\ LET pairs == ParseCards(ankiCalls[i + 1].reply)
          IN  /\ \A n \in 1..Len(pairs) :
                   i + 1 + n \in CallIdx =>
                     /\ IsCall(i + 1 + n, "addNotes")
                     /\ ankiCalls[i + 1 + n].deck = DeckOfGroup(g)
                     /\ ankiCalls[i + 1 + n].front = pairs[n][1]
                     /\ ankiCalls[i + 1 + n].back = pairs[n][2]
              /\ ~IsCall(i + 2 + Len(pairs), "addNotes")

\* every call belongs to the calls of a first group of a key
NoOtherCalls ==
  /\ \A i \in CallIdx :
       /\ ankiCalls[i].action \in {"createDeck", "generate", "addNotes"}
       /\ IsCall(i, "createDeck") =>
            /\ \E g \in 1..Len(annos) :
                 FirstOfKey(g) /\ ankiCalls[i].deck = DeckOfGroup(g)
            /\ \A j \in CallIdx :
                 IsCall(j, "createDeck") /\ ankiCalls[j].deck = ankiCalls[i].deck
                   => j = i
       /\ IsCall(i, "generate") => IsCall(i - 1, "createDeck")
       /\ IsCall(i, "addNotes") =>
            IsCall(i - 1, "generate") \/ IsCall(i - 1, "addNotes")

RunOver == hpc \in {"done", "raised"} /\ ankiCalls # << >>

AnyCall(i, act) == i \in 1..Len(ankiCalls) /\ ankiCalls[i].action = act

\* the cards of the deck created by call i were generated and pushed
DeckFilled(i) ==
  /\ AnyCall(i + 1, "generate")
  /\ \A n \in 1..Len(ParseCards(ankiCalls[i + 1].reply)) :
       /\ AnyCall(i + 1 + n, "addNotes")
       /\ ankiCalls[i + 1 + n].deck = ankiCalls[i].deck

(* C21: across harvester runs, a paper whose deck exists at the destination  *)
(* has had its flashcards generated and pushed: when a run that followed     *)
(* the one which created the deck returns, the cards of the deck have been   *)
(* generated and pushed, also if the generation call failed in the run that  *)
(* created the deck.                                                         *)
C21_DeckImpliesCards ==
  (hpc = "done" /\ DeckFetches(ankiCalls) >= 2) =>
    \A i \in 1..Len(ankiCalls) :
      (AnyCall(i, "createDeck")
         /\ \E j \in (i + 1)..Len(ankiCalls) : AnyCall(j, "deckNames"))
        => DeckFilled(i)

(* C22: split_text terminates for every input text and every maximum      *)
(* length of at least 1: each loop iteration removes at least one character  *)
(* from the remaining text, and for a non-empty input no block appended or   *)
(* returned is empty.                                                        *)
C22_SplitTextTerminates ==
  /\ <>(tpc = "done")
  /\ [][ /\ (tpc = "loop" /\ tpc' = "loop") => Len(text') < Len(text)
         /\ input # << >> =>
              \A i \in 1..Len(tchunks') : tchunks'[i] # << >> ]_vars

C22_Witness ==
  /\ tpc = "done" /\ max_length >= 2 /\ Len(tchunks) >= 2
  /\ Len(input) = MaxTextLen /\ text # input
  /\ \E i \in 1..Len(tchunks) : Len(tchunks[i]) < max_length

====
